---- MODULE Spec2Model ----
(***************************************************************************)
(* A model of answer_selection/data_helpers.py: the corpus loaders         *)
(* (loadAnswers, loadDataset), the feature functions (word_count,          *)
(* common_words, tfidf_feature, word_feature, normalize_vec, charVec) and  *)
(* the batch generator batch_iter.                                         *)
(*                                                                         *)
(* Representation.  A Python str is a sequence of one-character strings,   *)
(* so that split() and slicing are computed, not assumed.  A Python float  *)
(* is a fixed-point integer counting tenths (1.0 is 10, 0.7 is 7); a       *)
(* quotient a/b is the pair <<a, b>>, compared by cross-multiplication.    *)
(* A call that raises returns [exc |-> "KeyError"] (or "IndexError"); a    *)
(* call that returns v returns [exc |-> "none", val |-> v].                *)
(***************************************************************************)
EXTENDS Integers, Sequences, FiniteSets, TLC

VARIABLES
    call, ret,                       \* SpecFeat: one call of a feature function
    aRead, pairFile, lpc, answers, dataset, result,   \* SpecLoad
    maxlen,                          \* the configured max sequence length
    theIdf, theCharVocab,            \* the IDF table and character vocabulary
    data, gen, hist                  \* Spec: batch_iter instances over one list

featVars == <<call, ret>>
loadVars == <<aRead, pairFile, lpc, answers, dataset, result>>
iterVars == <<theIdf, theCharVocab, data, gen, hist>>
vars == <<call, ret, aRead, pairFile, lpc, answers, dataset, result,
          maxlen, theIdf, theCharVocab, data, gen, hist>>

----------------------------------------------------------------------------
(* Bounds of the model. *)
MaxVecLen == 2
MaxTokens == 2
MaxTokLen == 2
MaxSeqLen == 2
MaxWordLen == 2
MaxAnsLines == 2
MaxLines == 2
MaxData == 4
MaxShared == 2
MaxBatch == 2
MaxEpochs == 2

(* word_count and common_words keep only the ids above this one. *)
ReservedIdMax == 100

----------------------------------------------------------------------------
(* Values. *)
Min(a, b) == IF a <= b THEN a ELSE b
Max(a, b) == IF a >= b THEN a ELSE b

Float(n) == n * 10
IntOfFloat(x) == x \div 10

Ok(v) == [exc |-> "none", val |-> v]
Raise(e) == [exc |-> e]
NotCalled == [exc |-> "not called"]

SeqsUpTo(S, n) == UNION {[1..k -> S] : k \in 0..n}
Take(s, n) == SubSeq(s, 1, Min(Len(s), Max(n, 0)))

RECURSIVE SumOver(_, _)
SumOver(S, f) ==
    IF S = {} THEN 0
    ELSE LET t == CHOOSE t \in S : TRUE IN f[t] + SumOver(S \ {t}, f)

Occurrences(s, t) == Cardinality({i \in 1..Len(s) : s[i] = t})

----------------------------------------------------------------------------
(* The feature functions. *)

IdsAbove(vec, len) == {vec[i] : i \in {j \in 1..len : vec[j] > ReservedIdMax}}

(* word_count with the reserved-id filter off by one: >= 100 for > 100. *)
word_count_ge(q_vec, a_vec, q_len, a_len, idf) ==
    IF q_len > Len(q_vec) \/ a_len > Len(a_vec) THEN Raise("IndexError")
    ELSE
      LET q_set == {q_vec[i] : i \in {j \in 1..q_len : q_vec[j] >= ReservedIdMax}}
          a_set == {a_vec[i] : i \in {j \in 1..a_len : a_vec[j] >= ReservedIdMax}}
          new_q_len == Float(Max(Cardinality(q_set), 1))
          hits == {id1 \in q_set : id1 \in a_set}
          count1 == Float(Cardinality(hits))
          count2 == SumOver({id1 \in hits : id1 \in DOMAIN idf}, idf)
      IN Ok(<<(<<count1, new_q_len>>), (<<count2, new_q_len>>)>>)

word_count(q_vec, a_vec, q_len, a_len, idf) ==
    IF q_len > Len(q_vec) \/ a_len > Len(a_vec) THEN Raise("IndexError")
    ELSE
      LET q_set == IdsAbove(q_vec, q_len)
          a_set == IdsAbove(a_vec, a_len)
          new_q_len == Float(Max(Cardinality(q_set), 1))
          hits == {id1 \in q_set : id1 \in a_set}
          count1 == Float(Cardinality(hits))
          count2 == SumOver({id1 \in hits : id1 \in DOMAIN idf}, idf)
      IN Ok(<<(<<count1, new_q_len>>), (<<count2, new_q_len>>)>>)

common_words(q_vec, a_vec, q_len, a_len) ==
    IF q_len > Len(q_vec) \/ a_len > Len(a_vec) THEN Raise("IndexError")
    ELSE Ok(IdsAbove(q_vec, q_len) \cap IdsAbove(a_vec, a_len))

tfidf_feature(id_list, common_id_set, idf) ==
    LET counted == {id_list[i] : i \in {j \in 1..Len(id_list) : id_list[j] \in common_id_set}}
        word_freq == [t \in counted |-> Occurrences(id_list, t)]
    IN IF \E t \in common_id_set : t \notin DOMAIN word_freq
       THEN Raise("KeyError")
       ELSE Ok([t \in common_id_set |->
                  IF t \in DOMAIN idf THEN word_freq[t] * idf[t]
                  ELSE Float(word_freq[t])])

word_feature(id_list, tfidf) ==
    [idx \in 1..Len(id_list) |->
        IF id_list[idx] \in DOMAIN tfidf
        THEN <<Float(1), tfidf[id_list[idx]]>>
        ELSE <<0, 0>>]

(* normalize_vec without the zero padding of a shorter vector. *)
normalize_vec_nopad(vec, maxlen_) ==
    IF Len(vec) > maxlen_ THEN Raise("IndexError") ELSE Ok(vec)

normalize_vec(vec, maxlen_) ==
    IF Len(vec) = maxlen_ THEN Ok(vec)
    ELSE IF Len(vec) > maxlen_ THEN Raise("IndexError")
    ELSE Ok([i \in 1..maxlen_ |-> IF i <= Len(vec) THEN vec[i] ELSE 0])

charVec(tokens, charVocab, maxlen_, maxWordLength) ==
    LET n == IF Len(tokens) > maxlen_ THEN maxlen_ ELSE Len(tokens)
        token(i) == Take(tokens[i], maxWordLength)
        chars == [i \in 1..maxlen_ |-> [idx \in 1..maxWordLength |->
                    IF i <= n /\ idx <= Len(token(i)) /\ token(i)[idx] \in DOMAIN charVocab
                    THEN charVocab[token(i)[idx]] ELSE 0]]
        word_lengths == [i \in 1..maxlen_ |-> IF i <= n THEN Len(token(i)) ELSE 1]
    IN <<chars, word_lengths>>

----------------------------------------------------------------------------
(* SpecFeat: one call of one feature function on inputs from bounded sets. *)

Ids == {100, 101, 102}
IdVecs == SeqsUpTo(Ids, MaxVecLen)
IdfAll == (100 :> 3) @@ (101 :> 7) @@ (102 :> 9)
IdfTables == {[t \in S |-> IdfAll[t]] : S \in {{}, {101}, {100, 101, 102}}}
Chars == {"c", "x"}
CharVocabulary == ("c" :> 5) @@ ("d" :> 6)
Tokens == SeqsUpTo(Chars, MaxTokLen)
TokenLists == SeqsUpTo(Tokens, MaxTokens)

WordCountCalls ==
    {[fn |-> "word_count", q_vec |-> q, a_vec |-> a, q_len |-> ql, a_len |-> al, idf |-> f] :
        q \in IdVecs, a \in IdVecs, ql \in 0..MaxVecLen, al \in 0..MaxVecLen, f \in IdfTables}
TfidfCalls ==
    {[fn |-> "tfidf_feature", id_list |-> l, common_id_set |-> c, idf |-> f] :
        l \in IdVecs, c \in SUBSET Ids, f \in IdfTables}
NormalizeCalls ==
    {[fn |-> "normalize_vec", vec |-> v, maxlen |-> m] : v \in IdVecs, m \in 0..MaxSeqLen}
CharVecCalls ==
    {[fn |-> "charVec", tokens |-> t, maxlen |-> m, maxWordLength |-> w] :
        t \in TokenLists, m \in 1..MaxSeqLen, w \in 1..MaxWordLen}

IdleLoad ==
    /\ aRead = 0 /\ pairFile = <<>> /\ lpc = "idle"
    /\ answers = <<>> /\ dataset = <<>> /\ result = NotCalled
IdleIter == theIdf = <<>> /\ theCharVocab = <<>> /\ data = <<>> /\ gen = <<>> /\ hist = <<>>
IdleFeat == call = [fn |-> "none"] /\ ret = NotCalled

FeatInit ==
    /\ call \in WordCountCalls \cup TfidfCalls \cup NormalizeCalls \cup CharVecCalls
    /\ ret = NotCalled
    /\ maxlen = 0
    /\ IdleLoad /\ IdleIter

CallWordCount ==
    /\ call.fn = "word_count" /\ ret = NotCalled
    /\ ret' = word_count(call.q_vec, call.a_vec, call.q_len, call.a_len, call.idf)
    /\ UNCHANGED <<call, maxlen, loadVars, iterVars>>

CallTfidfFeature ==
    /\ call.fn = "tfidf_feature" /\ ret = NotCalled
    /\ ret' = tfidf_feature(call.id_list, call.common_id_set, call.idf)
    /\ UNCHANGED <<call, maxlen, loadVars, iterVars>>

CallNormalizeVec ==
    /\ call.fn = "normalize_vec" /\ ret = NotCalled
    /\ ret' = normalize_vec(call.vec, call.maxlen)
    /\ UNCHANGED <<call, maxlen, loadVars, iterVars>>

CallCharVec ==
    /\ call.fn = "charVec" /\ ret = NotCalled
    /\ ret' = Ok(charVec(call.tokens, CharVocabulary, call.maxlen, call.maxWordLength))
    /\ UNCHANGED <<call, maxlen, loadVars, iterVars>>

FeatNext == CallWordCount \/ CallTfidfFeature \/ CallNormalizeVec \/ CallCharVec

SpecFeat == FeatInit /\ [][FeatNext]_vars

----------------------------------------------------------------------------
(* The corpus loaders.  A line is modelled after line.strip().split('\t'):  *)
(* the sequence of its fields, each a str.                                  *)

UNKNOWN == <<"U", "N", "K", "N", "O", "W", "N">>
NA == <<"N", "A">>

RECURSIVE Split(_, _)
Split(s, sep) ==
    IF \A i \in 1..Len(s) : s[i] # sep THEN <<s>>
    ELSE LET i == CHOOSE i \in 1..Len(s) : s[i] = sep /\ \A j \in 1..(i - 1) : s[j] # sep
         IN <<SubSeq(s, 1, i - 1)>> \o Split(SubSeq(s, i + 1, Len(s)), sep)

toVec(tokens, vocab, maxlen_) ==
    IF (\E i \in 1..Len(tokens) : tokens[i] \notin DOMAIN vocab) /\ UNKNOWN \notin DOMAIN vocab
    THEN Raise("KeyError")
    ELSE Ok(<<Len(tokens),
              [i \in 1..Len(tokens) |->
                  IF tokens[i] \in DOMAIN vocab THEN vocab[tokens[i]] ELSE vocab[UNKNOWN]]>>)

Put(d, k, v) == [x \in DOMAIN d \cup {k} |-> IF x = k THEN v ELSE d[x]]

(* One iteration of loadAnswers' loop: the pool after the line. *)
loadAnswersLine(fields, vocab, maxlen_, pool) ==
    LET a_text == IF Len(fields) # 2 THEN UNKNOWN ELSE fields[2]
        tokens == Split(a_text, " ")
        r == toVec(Take(tokens, maxlen_), vocab, maxlen_)
    IN IF r.exc # "none" THEN r
       ELSE Ok(Put(pool, fields[1], <<r.val[1], r.val[2], Take(tokens, maxlen_)>>))

Example(q_id, q_len, q_vec, aid, a_len, a_vec, label, q_tokens, a_tokens) ==
    [q_id |-> q_id, q_len |-> q_len, q_vec |-> q_vec, aid |-> aid, a_len |-> a_len,
     a_vec |-> a_vec, label |-> label, q_tokens |-> q_tokens, a_tokens |-> a_tokens]

(* AppendPairs skipping an id the pool lacks instead of raising. *)
RECURSIVE AppendPairs_skip(_, _, _, _, _, _, _)
AppendPairs_skip(ids, q_id, q_len, q_vec, q_tokens, label, pool) ==
    IF ids = <<>> THEN [exc |-> "none", appended |-> <<>>]
    ELSE IF Head(ids) \notin DOMAIN pool
    THEN AppendPairs_skip(Tail(ids), q_id, q_len, q_vec, q_tokens, label, pool)
    ELSE LET a == pool[Head(ids)]
             rest == AppendPairs_skip(Tail(ids), q_id, q_len, q_vec, q_tokens, label, pool)
         IN [exc |-> rest.exc,
             appended |-> <<Example(q_id, q_len, q_vec, Head(ids), a[1], a[2], label,
                                    q_tokens, a[3])>> \o rest.appended]

(* The examples one polarity of a line appends before the loop ends or     *)
(* answers[aid] raises: [exc, appended].                                   *)
RECURSIVE AppendPairs(_, _, _, _, _, _, _)
AppendPairs(ids, q_id, q_len, q_vec, q_tokens, label, pool) ==
    IF ids = <<>> THEN [exc |-> "none", appended |-> <<>>]
    ELSE IF Head(ids) \notin DOMAIN pool THEN [exc |-> "KeyError", appended |-> <<>>]
    ELSE LET a == pool[Head(ids)]
             rest == AppendPairs(Tail(ids), q_id, q_len, q_vec, q_tokens, label, pool)
         IN [exc |-> rest.exc,
             appended |-> <<Example(q_id, q_len, q_vec, Head(ids), a[1], a[2], label,
                                    q_tokens, a[3])>> \o rest.appended]

(* loadDatasetLine with the two polarities' labels exchanged. *)
loadDatasetLine_swapped(fields, vocab, maxlen_, pool) ==
    LET q_id == fields[1]
        q_tokens == Split(fields[2], " ")
        r == toVec(Take(q_tokens, maxlen_), vocab, maxlen_)
    IN IF r.exc # "none" THEN [exc |-> r.exc, appended |-> <<>>]
       ELSE
         LET q_len == r.val[1]
             q_vec == r.val[2]
             neg == IF fields[4] # NA
                    THEN AppendPairs(Split(fields[4], "|"), q_id, q_len, q_vec,
                                     Take(q_tokens, maxlen_), Float(1), pool)
                    ELSE [exc |-> "none", appended |-> <<>>]
             pos == IF fields[3] # NA
                    THEN AppendPairs(Split(fields[3], "|"), q_id, q_len, q_vec,
                                     Take(q_tokens, maxlen_), Float(0), pool)
                    ELSE [exc |-> "none", appended |-> <<>>]
         IN IF neg.exc # "none" THEN neg
            ELSE [exc |-> pos.exc, appended |-> neg.appended \o pos.appended]

(* One iteration of loadDataset's loop: [exc, appended]. *)
loadDatasetLine(fields, vocab, maxlen_, pool) ==
    LET q_id == fields[1]
        q_tokens == Split(fields[2], " ")
        r == toVec(Take(q_tokens, maxlen_), vocab, maxlen_)
    IN IF r.exc # "none" THEN [exc |-> r.exc, appended |-> <<>>]
       ELSE
         LET q_len == r.val[1]
             q_vec == r.val[2]
             neg == IF fields[4] # NA
                    THEN AppendPairs(Split(fields[4], "|"), q_id, q_len, q_vec,
                                     Take(q_tokens, maxlen_), Float(0), pool)
                    ELSE [exc |-> "none", appended |-> <<>>]
             pos == IF fields[3] # NA
                    THEN AppendPairs(Split(fields[3], "|"), q_id, q_len, q_vec,
                                     Take(q_tokens, maxlen_), Float(1), pool)
                    ELSE [exc |-> "none", appended |-> <<>>]
         IN IF neg.exc # "none" THEN neg
            ELSE [exc |-> pos.exc, appended |-> neg.appended \o pos.appended]

----------------------------------------------------------------------------
(* SpecLoad: loadAnswers, then loadDataset on the pool it returned. *)

Vocabulary == (UNKNOWN :> 0) @@ (<<"c">> :> 101) @@ (<<"d", "c">> :> 102) @@ (<<"r">> :> 50)

AnswerLineSet ==
    { <<(<<"a">>), (<<"c", " ", "r">>)>>,
      <<(<<"b">>), (<<"d", "c", " ", "c", " ", "d", "c">>)>>,
      <<(<<"a">>)>>,
      <<(<<"b">>), (<<"x", " ", " ", "c">>)>> }
QuestionTexts == { <<"d", "c", " ", " ", "c">>, <<"c">> }
IdFields == { NA, <<"a">>, <<"a", "|", "b">> }
PairLineSet == { <<(<<"q">>), t, p, n>> : t \in QuestionTexts, p \in IdFields, n \in IdFields }

LoadInit ==
    /\ maxlen \in 1..MaxSeqLen
    /\ aRead = 0 /\ pairFile = <<>> /\ lpc = "loadAnswers"
    /\ answers = <<>> /\ dataset = <<>> /\ result = NotCalled
    /\ IdleFeat /\ IdleIter

LoadAnswersLine ==
    /\ lpc = "loadAnswers" /\ aRead < MaxAnsLines
    /\ \E fields \in AnswerLineSet :
          LET r == loadAnswersLine(fields, Vocabulary, maxlen, answers)
          IN IF r.exc = "none"
             THEN answers' = r.val /\ lpc' = lpc
             ELSE answers' = answers /\ lpc' = "raised"
    /\ aRead' = aRead + 1
    /\ UNCHANGED <<pairFile, dataset, result, maxlen, featVars, iterVars>>

LoadAnswersReturn ==
    /\ lpc = "loadAnswers"
    /\ lpc' = "loadDataset"
    /\ UNCHANGED <<aRead, pairFile, answers, dataset, result, maxlen, featVars, iterVars>>

LoadDatasetLine ==
    /\ lpc = "loadDataset" /\ Len(pairFile) < MaxLines
    /\ \E fields \in PairLineSet :
          LET r == loadDatasetLine(fields, Vocabulary, maxlen, answers)
          IN /\ pairFile' = Append(pairFile, fields)
             /\ dataset' = dataset \o r.appended
             /\ lpc' = IF r.exc = "none" THEN lpc ELSE "raised"
    /\ UNCHANGED <<aRead, answers, result, maxlen, featVars, iterVars>>

LoadDatasetReturn ==
    /\ lpc = "loadDataset"
    /\ result' = Ok(dataset)
    /\ lpc' = "returned"
    /\ UNCHANGED <<aRead, pairFile, answers, dataset, maxlen, featVars, iterVars>>

LoadNext == LoadAnswersLine \/ LoadAnswersReturn \/ LoadDatasetLine \/ LoadDatasetReturn

SpecLoad == LoadInit /\ [][LoadNext]_vars

----------------------------------------------------------------------------
(* batch_iter.  A generator instance runs from one next() call to its next *)
(* yield without interleaving; instances share the example list `data`.    *)

Shuffles(s) ==
    {[i \in 1..Len(s) |-> s[p[i]]] :
        p \in {q \in [1..Len(s) -> 1..Len(s)] : \A i, j \in 1..Len(s) : q[i] = q[j] => i = j}}

(* data[start_index:end_index] as range(start_index, end_index) walks it. *)
Slice(d, start_index, end_index) ==
    [r \in 1..Max(end_index - start_index, 0) |-> d[start_index + r]]

(* The exception, if any, the loop body of lines 201-233 raises on a row. *)
RowExc(ex, idf, maxlen_) ==
    LET wc == word_count(ex.q_vec, ex.a_vec, ex.q_len, ex.a_len, idf)
        cw == common_words(ex.q_vec, ex.a_vec, ex.q_len, ex.a_len)
    IN IF wc.exc # "none" THEN wc.exc
       ELSE IF tfidf_feature(ex.q_vec, cw.val, idf).exc # "none" THEN "KeyError"
       ELSE IF normalize_vec(ex.q_vec, maxlen_).exc # "none" THEN "IndexError"
       ELSE IF normalize_vec(ex.a_vec, maxlen_).exc # "none" THEN "IndexError"
       ELSE "none"

(* TargetWeight with the two indices of the weight vector exchanged. *)
TargetWeight_swapped(ex, target_loss_weights) ==
    IF ex.label > 0 THEN target_loss_weights[1] ELSE target_loss_weights[2]

TargetWeight(ex, target_loss_weights) ==
    IF ex.label > 0 THEN target_loss_weights[2] ELSE target_loss_weights[1]

IdPair(ex) == <<ex.q_id, ex.aid, IntOfFloat(ex.label)>>

RowTfidf(ex, idf) ==
    tfidf_feature(ex.q_vec, common_words(ex.q_vec, ex.a_vec, ex.q_len, ex.a_len).val, idf).val

(* The tuple of column arrays one pass of the batch loop yields. *)
MakeBatch(d, start_index, end_index, target_loss_weights, idf, maxlen_, charVocab, max_word_length) ==
    LET rows == Slice(d, start_index, end_index)
        R == DOMAIN rows
    IN IF \E r \in R : RowExc(rows[r], idf, maxlen_) # "none"
       THEN Raise(RowExc(rows[CHOOSE r \in R : RowExc(rows[r], idf, maxlen_) # "none"
                                  /\ \A k \in 1..(r - 1) : RowExc(rows[k], idf, maxlen_) = "none"],
                         idf, maxlen_))
       ELSE Ok([
         x_question |-> [r \in R |-> normalize_vec(rows[r].q_vec, maxlen_).val],
         x_answer |-> [r \in R |-> normalize_vec(rows[r].a_vec, maxlen_).val],
         x_question_len |-> [r \in R |-> rows[r].q_len],
         x_answer_len |-> [r \in R |-> rows[r].a_len],
         targets |-> [r \in R |-> rows[r].label],
         target_weights |-> [r \in R |-> TargetWeight(rows[r], target_loss_weights)],
         id_pairs |-> [r \in R |-> IdPair(rows[r])],
         extra_feature |-> [r \in R |->
             word_count(rows[r].q_vec, rows[r].a_vec, rows[r].q_len, rows[r].a_len, idf).val],
         q_features |-> [r \in R |->
             word_feature(normalize_vec(rows[r].q_vec, maxlen_).val, RowTfidf(rows[r], idf))],
         a_features |-> [r \in R |->
             word_feature(normalize_vec(rows[r].a_vec, maxlen_).val, RowTfidf(rows[r], idf))],
         x_question_char |-> [r \in R |->
             charVec(rows[r].q_tokens, charVocab, maxlen_, max_word_length)[1]],
         x_question_char_len |-> [r \in R |->
             charVec(rows[r].q_tokens, charVocab, maxlen_, max_word_length)[2]],
         x_answer_char |-> [r \in R |->
             charVec(rows[r].a_tokens, charVocab, maxlen_, max_word_length)[1]],
         x_answer_char_len |-> [r \in R |->
             charVec(rows[r].a_tokens, charVocab, maxlen_, max_word_length)[2]]])

(* The batch count rounded up, which drops the trailing empty batch. *)
NumBatchesPerEpoch_ceil(n, batch_size) == (n + batch_size - 1) \div batch_size

(* The slice starting one row late. *)
StartIndex_late(batch_num, batch_size) == batch_num * batch_size + 1

NumBatchesPerEpoch(n, batch_size) == (n \div batch_size) + 1
StartIndex(batch_num, batch_size) == batch_num * batch_size
EndIndex(batch_num, batch_size, data_size) == Min((batch_num + 1) * batch_size, data_size)

----------------------------------------------------------------------------
(* Spec: two batch_iter instances over one example list, which loadDataset *)
(* built with the same max sequence length the instances are given.        *)

Gens == {"g1", "g2"}
TargetLossWeights == <<10, 25>>
BatchIdf == (0 :> 1) @@ (50 :> 2) @@ (101 :> 7) @@ (102 :> 9)

SampleAnswers(m) ==
    LET p1 == loadAnswersLine(<<(<<"a">>), (<<"c", " ", "r">>)>>, Vocabulary, m, <<>>).val
    IN loadAnswersLine(<<(<<"b">>), (<<"d", "c", " ", "c", " ", "d", "c">>)>>,
                       Vocabulary, m, p1).val
SampleDataset(m) ==
    loadDatasetLine(<<(<<"q">>), (<<"d", "c", " ", " ", "c">>), (<<"a">>), (<<"b">>)>>,
                    Vocabulary, m, SampleAnswers(m)).appended
    \o loadDatasetLine(<<(<<"p">>), (<<"c">>), (<<"b">>), NA>>,
                       Vocabulary, m, SampleAnswers(m)).appended
Cycle(s, n) == [i \in 1..n |-> s[((i - 1) % Len(s)) + 1]]

NoBatch == [x_question |-> <<>>]
NoHistory ==
    [out |-> NoBatch, sizes |-> <<>>, seen |-> <<>>, total |-> 0, epochData |-> <<>>,
     clean |-> TRUE]

IterInit(G, maxData, maxlens, epochs) ==
    /\ maxlen \in maxlens
    /\ theIdf = BatchIdf /\ theCharVocab = CharVocabulary
    /\ \E n \in 0..maxData : data = Cycle(SampleDataset(maxlen), n)
    /\ \E b \in 1..MaxBatch, e \in epochs, sh \in [G -> BOOLEAN] :
          gen = [g \in G |->
                   [pc |-> "created", shuffle |-> sh[g], batch_size |-> b, num_epochs |-> e,
                    data_size |-> 0, num_batches_per_epoch |-> 0, epoch |-> 0, batch_num |-> 0]]
    /\ hist = [g \in G |-> NoHistory]
    /\ IdleFeat
    /\ aRead = 0 /\ pairFile = <<>> /\ lpc = "idle"
    /\ answers = <<>> /\ dataset = <<>> /\ result = NotCalled

(* EpochStart shuffling whatever the flag says. *)
EpochStart_always(g) == data' \in Shuffles(data)

(* Lines 177-178: random.shuffle(data) leaves any permutation of the list. *)
EpochStart(g) == IF gen[g].shuffle THEN data' \in Shuffles(data) ELSE data' = data

(* Lines 179-235 for batch batch_num of epoch `epoch`: build and yield.     *)
(* newEpoch: the call entered a new epoch, so data' is the list it walks.   *)
(* hist[g] is what the consumer of g has been handed: the last batch (out), *)
(* this epoch's batches' row counts (sizes) and id triples (seen), and the  *)
(* number of batches so far (total); epochData is the list as the epoch's   *)
(* shuffle left it, clean whether no other instance has changed it since.   *)
YieldBatch(g, epoch, batch_num, data_size, nbpe, newEpoch) ==
    \E b \in {MakeBatch(data', StartIndex(batch_num, gen[g].batch_size),
                        EndIndex(batch_num, gen[g].batch_size, data_size),
                        TargetLossWeights, theIdf, maxlen, theCharVocab, MaxWordLen)} :
       /\ gen' = [gen EXCEPT ![g] =
                    [@ EXCEPT !.pc = IF b.exc = "none" THEN "yielded" ELSE "raised",
                              !.data_size = data_size, !.num_batches_per_epoch = nbpe,
                              !.epoch = epoch, !.batch_num = batch_num]]
       /\ hist' = [h \in DOMAIN gen |->
            IF h = g
            THEN IF b.exc # "none" THEN hist[g]
                 ELSE [out |-> b.val,
                       sizes |-> (IF newEpoch THEN <<>> ELSE hist[g].sizes)
                                 \o <<Len(b.val.id_pairs)>>,
                       seen |-> (IF newEpoch THEN <<>> ELSE hist[g].seen) \o b.val.id_pairs,
                       total |-> hist[g].total + 1,
                       epochData |-> IF newEpoch THEN data' ELSE hist[g].epochData,
                       clean |-> IF newEpoch THEN TRUE ELSE hist[g].clean]
            ELSE [hist[h] EXCEPT !.clean = @ /\ (data' = data \/ gen[h].pc # "yielded")]]

(* The first next(): lines 173-175, then the first batch of epoch 0. *)
FirstNext(g) ==
    /\ gen[g].pc = "created"
    /\ IF 0 < gen[g].num_epochs
       THEN /\ EpochStart(g)
            /\ YieldBatch(g, 0, 0, Len(data), NumBatchesPerEpoch(Len(data), gen[g].batch_size), TRUE)
       ELSE /\ gen' = [gen EXCEPT ![g].pc = "done"]
            /\ UNCHANGED <<data, hist>>
    /\ UNCHANGED <<maxlen, theIdf, theCharVocab, featVars, loadVars>>

(* next() inside an epoch: the next pass of the loop of line 179. *)
NextBatch(g) ==
    /\ gen[g].pc = "yielded"
    /\ gen[g].batch_num + 1 < gen[g].num_batches_per_epoch
    /\ data' = data
    /\ YieldBatch(g, gen[g].epoch, gen[g].batch_num + 1, gen[g].data_size,
                  gen[g].num_batches_per_epoch, FALSE)
    /\ UNCHANGED <<maxlen, theIdf, theCharVocab, featVars, loadVars>>

(* next() after an epoch's last batch, with epochs left: line 175 again. *)
NextEpoch(g) ==
    /\ gen[g].pc = "yielded"
    /\ gen[g].batch_num + 1 >= gen[g].num_batches_per_epoch
    /\ gen[g].epoch + 1 < gen[g].num_epochs
    /\ EpochStart(g)
    /\ YieldBatch(g, gen[g].epoch + 1, 0, gen[g].data_size,
                  gen[g].num_batches_per_epoch, TRUE)
    /\ UNCHANGED <<maxlen, theIdf, theCharVocab, featVars, loadVars>>

(* next() after the last batch of the last epoch: the generator ends. *)
Stop(g) ==
    /\ gen[g].pc = "yielded"
    /\ gen[g].batch_num + 1 >= gen[g].num_batches_per_epoch
    /\ gen[g].epoch + 1 >= gen[g].num_epochs
    /\ gen' = [gen EXCEPT ![g].pc = "done"]
    /\ UNCHANGED <<data, hist, maxlen, theIdf, theCharVocab, featVars, loadVars>>

(* Spec: one instance. *)
Init == IterInit({"g1"}, MaxData, 1..MaxSeqLen, 1..MaxEpochs)
Next == \E g \in {"g1"} : FirstNext(g) \/ NextBatch(g) \/ NextEpoch(g) \/ Stop(g)
Spec == Init /\ [][Next]_vars

(* SpecShared: two instances over one list, pulled in any interleaving. *)
SharedInit == IterInit(Gens, MaxShared, {MaxSeqLen}, {MaxEpochs})
SharedNext == \E g \in Gens : FirstNext(g) \/ NextBatch(g) \/ NextEpoch(g) \/ Stop(g)
SpecShared == SharedInit /\ [][SharedNext]_vars

----------------------------------------------------------------------------
(* Properties of the feature functions, under SpecFeat. *)

Returned(fn) == call.fn = fn /\ ret # NotCalled

(* The distinct ids > 100 among the first len positions of vec. *)
InformativeIds(vec, len) ==
    {t \in {vec[i] : i \in 1..Len(vec)} : t > 100 /\ \E i \in 1..len : vec[i] = t}
WeightOrZero(f, S) == [t \in S |-> IF t \in DOMAIN f THEN f[t] ELSE 0]

(* C6: for vectors holding at least q_len and a_len ids, word_count returns *)
(* rawRatio = |Q n A| / max(|Q|, 1) and weightedRatio = (sum over Q n A of  *)
(* the id's IDF weight, 0 without an entry) / max(|Q|, 1), Q and A the      *)
(* distinct ids > 100 among the first q_len and a_len positions; the        *)
(* denominator is never 0, and both ratios are 0 when Q is empty.           *)
C6_LexicalOverlap ==
    (Returned("word_count") /\ call.q_len <= Len(call.q_vec) /\ call.a_len <= Len(call.a_vec)) =>
       LET Q == InformativeIds(call.q_vec, call.q_len)
           A == InformativeIds(call.a_vec, call.a_len)
           d == Max(Cardinality(Q), 1)
           w == SumOver(Q \cap A, WeightOrZero(call.idf, Q \cap A))
       IN /\ ret.exc = "none"
          /\ ret.val[1][2] # 0 /\ ret.val[2][2] # 0
          /\ ret.val[1][1] * d = Cardinality(Q \cap A) * ret.val[1][2]
          /\ ret.val[2][1] * Float(d) = w * ret.val[2][2]
          /\ (Q = {} => ret.val[1][1] = 0 /\ ret.val[2][1] = 0)

(* C6's case: two informative question ids, one shared with the answer and  *)
(* weighted, next to a reserved id 100 that both sides hold.                *)
C6_Witness ==
    /\ Returned("word_count") /\ ret.exc = "none"
    /\ Cardinality(InformativeIds(call.q_vec, call.q_len)) = 2
    /\ ret.val[1][1] = Float(1) /\ ret.val[2][1] > 0
    /\ \E i \in 1..call.a_len : call.a_vec[i] = 100

(* C8: tfidf_feature returns, for every id_list, common_id_set and idf, a  *)
(* map with one entry per id of common_id_set, valued count * idf[id] when  *)
(* the id has an IDF weight and the raw count otherwise, the count of an id *)
(* that does not occur in id_list being 0, without failing.                 *)
C8_TfidfTotal ==
    Returned("tfidf_feature") =>
       /\ ret.exc = "none"
       /\ DOMAIN ret.val = call.common_id_set
       /\ \A t \in call.common_id_set :
             ret.val[t] = IF t \in DOMAIN call.idf
                          THEN Occurrences(call.id_list, t) * call.idf[t]
                          ELSE Float(Occurrences(call.id_list, t))

(* C9: charVec returns maxlen word lengths, word_lengths[i] being           *)
(* min(len(token i), maxWordLength) for a non-empty token i and 1 for an    *)
(* unused position or an empty token; the grid rows beyond the available    *)
(* tokens are all zero.                                                     *)
C9_WordLengths ==
    Returned("charVec") =>
       LET chars == ret.val[1]
           wl == ret.val[2]
           n == Min(Len(call.tokens), call.maxlen)
       IN /\ Len(wl) = call.maxlen
          /\ \A i \in 1..call.maxlen :
                wl[i] = IF i <= Len(call.tokens) /\ call.tokens[i] # <<>>
                        THEN Min(Len(call.tokens[i]), call.maxWordLength)
                        ELSE 1
          /\ \A i \in (n + 1)..call.maxlen : \A j \in 1..call.maxWordLength : chars[i][j] = 0

----------------------------------------------------------------------------
(* Properties of the loaders, under SpecLoad. *)

ListedIds(field) == IF field = NA THEN <<>> ELSE Split(field, "|")
Resolvable(line) ==
    \A k \in 3..4 : \A j \in 1..Len(ListedIds(line[k])) : ListedIds(line[k])[j] \in DOMAIN answers
ExamplesOf(line) == Len(ListedIds(line[3])) + Len(ListedIds(line[4]))
RECURSIVE Offset(_)
Offset(i) == IF i <= 1 THEN 0 ELSE Offset(i - 1) + ExamplesOf(pairFile[i - 1])
Segment(i) == SubSeq(dataset, Offset(i) + 1, Offset(i) + ExamplesOf(pairFile[i]))
Labelled(seg, id, label) == Cardinality({k \in 1..Len(seg) : seg[k].aid = id /\ seg[k].label = label})

(* C4: once loadDataset has read a line naming an id the answer pool lacks, *)
(* it has raised and no list has been returned, and none ever is.           *)
C4_MissingAnswerFatal ==
    /\ (\E i \in 1..Len(pairFile) : ~Resolvable(pairFile[i])) =>
          lpc = "raised" /\ result = NotCalled
    /\ lpc = "raised" => result = NotCalled

(* C4's case: the failing line's first id resolved and its example was      *)
(* appended before the second id raised; the partial list is not returned.  *)
C4_Witness ==
    /\ lpc = "raised" /\ pairFile # <<>>
    /\ ~Resolvable(pairFile[Len(pairFile)])
    /\ Len(dataset) > Offset(Len(pairFile))

(* C5: every line whose listed ids are all in the pool contributes, for     *)
(* each id, as many examples labelled 0.0 as the negative field lists it    *)
(* and as many labelled 1.0 as the positive field lists it, "NA" listing    *)
(* none, all with the line's question id, tokens, length and vector; the    *)
(* list returned is these contributions in line order.                      *)
C5_ExamplesPerLine ==
    /\ \A i \in 1..Len(pairFile) :
          Resolvable(pairFile[i]) =>
             LET line == pairFile[i]
                 seg == Segment(i)
                 q_tokens == Take(Split(line[2], " "), maxlen)
             IN /\ Len(dataset) >= Offset(i) + ExamplesOf(line)
                /\ \A id \in DOMAIN answers :
                      /\ Labelled(seg, id, 0) = Occurrences(ListedIds(line[4]), id)
                      /\ Labelled(seg, id, 10) = Occurrences(ListedIds(line[3]), id)
                /\ \A k \in 1..Len(seg) :
                      /\ seg[k].aid \in DOMAIN answers /\ seg[k].label \in {0, 10}
                      /\ seg[k].q_id = line[1] /\ seg[k].q_tokens = q_tokens
                      /\ seg[k].q_len = Len(q_tokens) /\ seg[k].q_vec = seg[1].q_vec
    /\ lpc # "raised" => Len(dataset) = Offset(Len(pairFile) + 1)
    /\ lpc = "returned" => result = Ok(dataset)

(* C5's case: positive field "NA", negative field "a|b", both in the pool:  *)
(* exactly two examples, both labelled 0.0.                                 *)
C5_Witness ==
    /\ lpc = "returned" /\ Len(pairFile) = 1
    /\ pairFile[1][3] = NA /\ pairFile[1][4] = <<"a", "|", "b">>
    /\ Len(result.val) = 2
    /\ result.val[1].label = 0 /\ result.val[2].label = 0
    /\ result.val[1].aid = <<"a">> /\ result.val[2].aid = <<"b">>

----------------------------------------------------------------------------
(* Properties of batch_iter, under Spec (one instance) and SpecShared (two *)
(* instances over one list).                                               *)

Original == Cycle(SampleDataset(maxlen), Len(data))
PerEpoch(g) == (Len(data) \div gen[g].batch_size) + 1
RowCount(g) == hist[g].sizes[Len(hist[g].sizes)]
FirstRow(g) == gen[g].batch_num * gen[g].batch_size
Triple(ex) == <<ex.q_id, ex.aid, IF ex.label = 10 THEN 1 ELSE 0>>
Columns(b) ==
    <<b.x_question, b.x_answer, b.x_question_len, b.x_answer_len, b.targets,
      b.target_weights, b.id_pairs, b.extra_feature, b.q_features, b.a_features,
      b.x_question_char, b.x_question_char_len, b.x_answer_char, b.x_answer_char_len>>

(* C1: with N examples, batch size B and E epochs, batch_iter never raises, *)
(* has yielded epoch * (N div B + 1) + (batches of this epoch) batches at   *)
(* every yield, E * (N div B + 1) when it has ended, and the k-th batch of  *)
(* an epoch has min(B, N - (k-1)*B) rows, N mod B (possibly 0) for the last.*)
C1_BatchCount ==
    \A g \in DOMAIN gen :
       LET N == Len(data)
           B == gen[g].batch_size
           E == gen[g].num_epochs
           per == (N \div B) + 1
           sizes == hist[g].sizes
       IN /\ gen[g].pc # "raised"
          /\ gen[g].pc = "created" => hist[g].total = 0
          /\ gen[g].pc = "yielded" =>
                /\ gen[g].epoch < E /\ Len(sizes) <= per
                /\ gen[g].batch_num = Len(sizes) - 1
                /\ hist[g].total = gen[g].epoch * per + Len(sizes)
                /\ Len(hist[g].out.x_question) = sizes[Len(sizes)]
          /\ gen[g].pc = "done" => hist[g].total = E * per /\ Len(sizes) = per
          /\ \A k \in 1..Len(sizes) : sizes[k] = Min(B, N - (k - 1) * B)
          /\ Len(sizes) = per => sizes[per] = N % B

(* C1's case: N = 2, B = 2, E = 2 has ended after batches of 2, 0, 2, 0 rows. *)
C1_Witness ==
    \E g \in DOMAIN gen :
       /\ gen[g].pc = "done" /\ Len(data) = 2
       /\ gen[g].batch_size = 2 /\ gen[g].num_epochs = 2
       /\ hist[g].total = 4 /\ hist[g].sizes = <<2, 0>>

(* C3: all fourteen columns of a yielded batch have as many rows as the     *)
(* slice, and row r holds the label, the class weight (weights[1] for a     *)
(* label > 0, weights[0] otherwise), the id triple and the two lengths of   *)
(* the r-th example of the slice.                                           *)
C3_RowsAligned ==
    \A g \in DOMAIN gen :
       gen[g].pc = "yielded" =>
          LET b == hist[g].out
              n == Max(Min(gen[g].batch_size, Len(data) - FirstRow(g)), 0)
          IN /\ \A c \in 1..14 : Len(Columns(b)[c]) = n
             /\ \A r \in 1..n :
                   LET ex == data[FirstRow(g) + r]
                   IN /\ b.targets[r] = ex.label
                      /\ b.target_weights[r] =
                            (IF ex.label > 0 THEN TargetLossWeights[2] ELSE TargetLossWeights[1])
                      /\ b.id_pairs[r] = Triple(ex)
                      /\ b.x_question_len[r] = ex.q_len
                      /\ b.x_answer_len[r] = ex.a_len

(* C3's case: a batch of at least two rows holding both labels. *)
C3_Witness ==
    \E g \in DOMAIN gen :
       /\ gen[g].pc = "yielded" /\ Len(hist[g].out.targets) >= 2
       /\ \E r, q \in DOMAIN hist[g].out.targets :
             /\ hist[g].out.targets[r] = 10 /\ hist[g].out.target_weights[r] = 25
             /\ hist[g].out.targets[q] = 0 /\ hist[g].out.target_weights[q] = 10

(* C7: every example's recorded lengths are at most maxlen and equal the    *)
(* sizes of its unpadded vectors; every question and answer row of a        *)
(* yielded batch has maxlen entries, the example's vector followed by       *)
(* zeros, and padding the row again returns it.                             *)
C7_PaddedRows ==
    /\ \A i \in 1..Len(data) :
          /\ data[i].q_len <= maxlen /\ data[i].q_len = Len(data[i].q_vec)
          /\ data[i].a_len <= maxlen /\ data[i].a_len = Len(data[i].a_vec)
    /\ \A g \in DOMAIN gen :
          gen[g].pc = "yielded" =>
             \A r \in 1..RowCount(g) :
                LET ex == data[FirstRow(g) + r]
                    q == hist[g].out.x_question[r]
                    a == hist[g].out.x_answer[r]
                IN /\ Len(q) = maxlen /\ Len(a) = maxlen
                   /\ \A i \in 1..maxlen :
                         /\ q[i] = IF i <= ex.q_len THEN ex.q_vec[i] ELSE 0
                         /\ a[i] = IF i <= ex.a_len THEN ex.a_vec[i] ELSE 0
                   /\ normalize_vec(q, maxlen) = Ok(q)
                   /\ normalize_vec(a, maxlen) = Ok(a)

(* C7's case: a row whose question is shorter than maxlen (padded) beside   *)
(* an answer that fills all maxlen entries.                                 *)
C7_Witness ==
    \E g \in DOMAIN gen :
       /\ gen[g].pc = "yielded"
       /\ \E r \in 1..RowCount(g) :
             /\ hist[g].out.x_question_len[r] < maxlen
             /\ hist[g].out.x_question[r][maxlen] = 0
             /\ hist[g].out.x_answer_len[r] = maxlen
             /\ hist[g].out.x_answer[r][maxlen] # 0

SameBag(s, t) ==
    /\ Len(s) = Len(t)
    /\ \A i \in 1..Len(s) : Occurrences(s, s[i]) = Occurrences(t, s[i])
Mover(g) == gen'[g] # gen[g]

C2_Rows ==
    /\ SameBag(data, Original)
    /\ \A g \in DOMAIN gen :
          (gen[g].pc = "yielded" /\ hist[g].clean) =>
             /\ Len(hist[g].seen) = Min(Len(data), (gen[g].batch_num + 1) * gen[g].batch_size)
             /\ \A i \in 1..Len(hist[g].seen) : hist[g].seen[i] = Triple(hist[g].epochData[i])
             /\ Len(hist[g].sizes) = PerEpoch(g) => Len(hist[g].seen) = Len(hist[g].epochData)
C2_ShuffleStep ==
    data' # data =>
       \E g \in DOMAIN gen :
          /\ Mover(g) /\ gen[g].shuffle
          /\ gen'[g].pc = "yielded" /\ gen'[g].batch_num = 0
          /\ gen[g].pc = "created" \/ gen'[g].epoch = gen[g].epoch + 1

(* C2: while no other instance has changed the list since an epoch began,   *)
(* the id triples of the epoch's batches, in yield order, are those of the  *)
(* list as the epoch's shuffle left it, all of it once the epoch's last     *)
(* batch is out; the list is always a permutation of the original; and the  *)
(* list changes only in a step that enters an epoch of a shuffling instance.*)
C2_EpochIsPermutation == []C2_Rows /\ [][C2_ShuffleStep]_vars

(* C2's case: a shuffling instance has finished its second epoch over a     *)
(* list that is no longer in its original order.                            *)
C2_Witness ==
    \E g \in DOMAIN gen :
       /\ gen[g].pc = "yielded" /\ gen[g].shuffle /\ hist[g].clean
       /\ gen[g].epoch = 1 /\ Len(hist[g].sizes) = PerEpoch(g)
       /\ Len(data) >= 2 /\ data # Original
       /\ Len(hist[g].seen) = Len(data)

AllOrdered == \A g \in DOMAIN gen : ~gen[g].shuffle
ExpectedBatch(g) ==
    MakeBatch(Original, StartIndex(gen[g].batch_num, gen[g].batch_size),
              EndIndex(gen[g].batch_num, gen[g].batch_size, Len(Original)),
              TargetLossWeights, BatchIdf, maxlen, CharVocabulary, MaxWordLen)
C10_Same ==
    /\ theIdf = BatchIdf /\ theCharVocab = CharVocabulary
    /\ AllOrdered =>
          /\ data = Original
          /\ \A g \in DOMAIN gen :
                gen[g].pc = "yielded" => Ok(hist[g].out) = ExpectedBatch(g)
          /\ \A g, h \in DOMAIN gen :
                (gen[g].pc = "yielded" /\ gen[h].pc = "yielded"
                   /\ gen[g].batch_num = gen[h].batch_num) => hist[g].out = hist[h].out
C10_Frame ==
    /\ theIdf' = theIdf /\ theCharVocab' = theCharVocab
    /\ \A g \in DOMAIN gen : (Mover(g) /\ ~gen[g].shuffle) => data' = data

(* C10: a step of an instance with shuffling disabled leaves the list as it *)
(* is, and no step changes the IDF table or the character vocabulary; when  *)
(* no instance shuffles, the list stays the original and the batch an       *)
(* instance has just yielded depends only on its number within the epoch:   *)
(* the same in every epoch and for every instance, whatever the             *)
(* interleaving.                                                            *)
C10_NoShuffleNoChange == []C10_Same /\ [][C10_Frame]_vars

(* C10's case: two instances without shuffling, one in its second epoch and *)
(* one in its first, at the same batch of a list of at least two examples.  *)
C10_Witness ==
    /\ AllOrdered /\ Len(data) >= 2
    /\ \E g, h \in DOMAIN gen :
          /\ gen[g].pc = "yielded" /\ gen[h].pc = "yielded"
          /\ gen[g].epoch = 1 /\ gen[h].epoch = 0
          /\ gen[g].batch_num = gen[h].batch_num
          /\ Len(hist[g].out.targets) >= 1

====
